---- MODULE Spec2Model ----
(***************************************************************************)
(* Fair Value Gap (FVG) detection: fvgAnalysisAction of                    *)
(* src/actions/fvg-analysis/fvg-analysis.ts as a state machine.            *)
(*                                                                         *)
(* A caller hands a candle sequence to fvgAnalysisAction; the function     *)
(* scans it with a three-candle sliding window and returns an outcome      *)
(* (isSuccess, message, data).  The caller may call again with the same    *)
(* sequence.  An element of the sequence may be undefined at run time; the *)
(* read of its properties throws and the catch block turns the exception   *)
(* into a failure outcome.                                                 *)
(*                                                                         *)
(* Around the detector: storeFvgResultsAction, fetchMarketDataAction, the  *)
(* notification actions and the GET route that runs fetch, analysis and    *)
(* storage, each with a specification of its own.                          *)
(***************************************************************************)
EXTENDS Integers, Sequences, FiniteSets, TLC

VARIABLES
    candlesticks,   \* the argument of fvgAnalysisAction
    pc,             \* position of the call: "ready", "scan", "done"
    i,              \* the loop variable of the sliding window
    results,        \* the local list `results`
    origin,         \* for each element of results, the value of i at its push
    outcome,        \* the ActionState last returned
    prior,          \* the ActionState returned by the call before that
    calls,          \* number of calls made by the caller
    consoleErrors,  \* number of console.error calls made so far
    table,          \* the rows of fvg_analysis, in insertion order
    storeArg,       \* the argument of the last storeFvgResultsAction call
    storeOutcome,   \* the ActionState storeFvgResultsAction last returned
    stores,         \* number of storeFvgResultsAction calls
    env,            \* which of BINGX_API_URL, _KEY, _SECRET are set
    response,       \* what the market-data API answers to a request
    fetchPc,        \* position of fetchMarketDataAction: "ready", "done"
    requests,       \* number of HTTP requests sent
    bodyReads,      \* the reads of the response body: "text", "json"
    fetchOutcome,   \* the ActionState fetchMarketDataAction returned
    emailEnv,       \* which of EMAIL_API_URL, EMAIL_API_KEY are set
    inAppThrows,    \* whether console.log of the in-app notification throws
    emailPc,        \* sendEmailNotificationAction: "ready", "loop", "wait", "done"
    attempt,        \* its counter of failed attempts
    lastError,      \* its last caught error
    emailLog,       \* the responses to the requests it sent, in order
    waits,          \* the delays it has sat through
    emailOutcome,   \* the ActionState it returned
    inAppOutcome,   \* the ActionState sendInAppNotificationAction returned
    order,          \* the notification actions called, in order
    dispatchPc,     \* dispatchFvgNotificationsAction: "ready", "email", "done"
    dispatchOutcome, \* the ActionState it returned
    route           \* the invocations of the GET route: position, results, answer

detectorVars == <<candlesticks, pc, i, results, origin, outcome, prior, calls,
                  consoleErrors>>

storeVars == <<table, storeArg, storeOutcome, stores>>

fetchVars == <<env, response, fetchPc, requests, bodyReads, fetchOutcome>>

notifyVars ==
    <<emailEnv, inAppThrows, emailPc, attempt, lastError, emailLog, waits,
      emailOutcome, inAppOutcome, order, dispatchPc, dispatchOutcome>>

routeVars == <<route>>

vars == <<detectorVars, storeVars, fetchVars, notifyVars, routeVars>>

----------------------------------------------------------------------------
(* Bounds of the model *)

MaxSeries == 4      \* longest series with positional times and volumes
MaxPrice == 1       \* prices range over 0..MaxPrice
MaxTime == 2        \* times of freely timed candles range over 1..MaxTime
MaxCalls == 2       \* calls the caller makes on one sequence
MaxItems == 2       \* items of a response body
MaxCycles == 2      \* invocations of the GET route

(* Program constants *)

WindowSize == 3     \* candles per window

----------------------------------------------------------------------------
(* Data *)

Prices == 0..MaxPrice

\* Candlestick: open/close are carried along; the fields the scan reads are
\* high, low, volume and time.
Candle(h, l, v, t) ==
    [open |-> l, close |-> h, high |-> h, low |-> l, volume |-> v, time |-> t]

RECURSIVE Pow2(_)
Pow2(k) == IF k = 0 THEN 1 ELSE 2 * Pow2(k - 1)

\* The volume of the candle at position k (1-based) is 2^(k-1), so that a sum
\* of volumes identifies the candles that were added up.
PositionVolume(k) == Pow2(k - 1)

\* Sequences of n candles, for n up to one window: any highs and lows
\* (malformed candles with low > high included) and any times, in any order.
ShortInputs(n) ==
    { [k \in 1..n |-> Candle(hl[k][1], hl[k][2], PositionVolume(k), t[k])] :
        hl \in [1..n -> Prices \X Prices], t \in [1..n -> 1..MaxTime] }

\* The series with the highs and lows hl[k] = <<high, low>>: ascending
\* distinct times, as the market-data source supplies them.
Series(hl) ==
    [k \in 1..Len(hl) |-> Candle(hl[k][1], hl[k][2], PositionVolume(k), k)]

\* Series of n candles with any highs and lows (malformed candles included).
SeriesInputs(n) == { Series(hl) : hl \in [1..n -> Prices \X Prices] }

\* Highs and lows of three candles with a bullish gap / with a bearish gap.
BullishGroups ==
    { g \in [1..WindowSize -> Prices \X Prices] : g[WindowSize][2] > g[1][1] }

BearishGroups ==
    { g \in [1..WindowSize -> Prices \X Prices] : g[WindowSize][1] < g[1][2] }

\* Six candles: a group with a bullish gap followed by a group with a
\* bearish gap.
GroupInputs ==
    { Series(g1 \o g2) : g1 \in BullishGroups, g2 \in BearishGroups }

\* The value of a missing element of the array.
Undefined == [undefined |-> TRUE]

\* Series of 2..4 candles in which one element is undefined.
FaultInputs(n) ==
    { [s EXCEPT ![p] = Undefined] : s \in SeriesInputs(n), p \in 1..n }

\* ActionState<T>: { isSuccess: true, message, data } on success,
\* { isSuccess: false, message } (no data) on failure.
Success(msg, d) ==
    [isSuccess |-> TRUE, message |-> msg, hasData |-> TRUE, data |-> d]

Failure(msg) ==
    [isSuccess |-> FALSE, message |-> msg, hasData |-> FALSE, data |-> << >>]

\* No call has returned yet.
NoOutcome == [isSuccess |-> FALSE, message |-> "", hasData |-> FALSE, data |-> << >>]

\* The value null.
Null == [null |-> TRUE]

\* A message that is one piece of text.
Text(s) == [text |-> s]

\* No notification action has returned yet.
Pending == Failure(Text(""))

----------------------------------------------------------------------------
(* fvgAnalysisAction *)

\* candlesticks[k] with the 0-based index of the source
At(k) == candlesticks[k + 1]

\* const results = [] : the list is local to the call
KeptResults(old) == old

FreshResults(old) == << >>

\* the return for fewer than 3 candles
NotEnoughDataAsError(res) == Failure("Not enough data to perform FVG analysis.")

NotEnoughData(res) == Success("Not enough data to perform FVG analysis.", res)

\* the return after the loop
Completed(res) == Success("FVG analysis completed successfully.", res)

\* i <= candlesticks.length - 3
LoopConditionStrict(k, n) == k < n - WindowSize

LoopCondition(k, n) == k <= n - WindowSize

\* candle1.volume + candle2.volume + candle3.volume is the first read of the
\* three elements: it throws a TypeError when one of them is undefined.
ThrowsOnMalformed(c1, c2, c3) ==
    \/ c1 = Undefined \/ c2 = Undefined \/ c3 = Undefined
    \/ c1.low > c1.high \/ c2.low > c2.high \/ c3.low > c3.high

Throws(c1, c2, c3) == c1 = Undefined \/ c2 = Undefined \/ c3 = Undefined

TypeErrorMessage == "Cannot read properties of undefined (reading 'volume')"

\* the return of the catch block: error.message, no data
CaughtAsSuccess(msg, res) == Success(msg, res)

CaughtWithPartial(msg, res) ==
    [isSuccess |-> FALSE, message |-> msg, hasData |-> TRUE, data |-> res]

Caught(msg, res) == Failure(msg)

BullishTestOrEqual(c1, c3) == c3.low >= c1.high

BullishTest(c1, c3) == c3.low > c1.high

BearishTestOnLows(c1, c3) == c3.low < c1.low

BearishTestFlipped(c1, c3) == c3.high > c1.low

BearishTest(c1, c3) == c3.high < c1.low

TotalVolumeOfEnds(c1, c2, c3) == c1.volume + c3.volume

TotalVolume(c1, c2, c3) == c1.volume + c2.volume + c3.volume

BullishEventEndsAtMiddle(c1, c2, c3) ==
    [fvgType |-> "bullish", startTime |-> c1.time, endTime |-> c2.time,
     gapSize |-> c3.low - c1.high, volume |-> TotalVolume(c1, c2, c3)]

BullishEventFromLows(c1, c2, c3) ==
    [fvgType |-> "bullish", startTime |-> c1.time, endTime |-> c3.time,
     gapSize |-> c3.low - c1.low, volume |-> TotalVolume(c1, c2, c3)]

BullishEvent(c1, c2, c3) ==
    [fvgType |-> "bullish", startTime |-> c1.time, endTime |-> c3.time,
     gapSize |-> c3.low - c1.high, volume |-> TotalVolume(c1, c2, c3)]

BearishEventReversed(c1, c2, c3) ==
    [fvgType |-> "bearish", startTime |-> c1.time, endTime |-> c3.time,
     gapSize |-> c3.high - c1.low, volume |-> TotalVolume(c1, c2, c3)]

BearishEventSwappedTimes(c1, c2, c3) ==
    [fvgType |-> "bearish", startTime |-> c3.time, endTime |-> c1.time,
     gapSize |-> c1.low - c3.high, volume |-> TotalVolume(c1, c2, c3)]

BearishEvent(c1, c2, c3) ==
    [fvgType |-> "bearish", startTime |-> c1.time, endTime |-> c3.time,
     gapSize |-> c1.low - c3.high, volume |-> TotalVolume(c1, c2, c3)]

PushedElseIf(c1, c2, c3) ==
    IF BullishTest(c1, c3) THEN << BullishEvent(c1, c2, c3) >>
    ELSE IF BearishTest(c1, c3) THEN << BearishEvent(c1, c2, c3) >>
    ELSE << >>

\* What one iteration of the loop body pushes for (c1, c2, c3): the two ifs
\* one after the other.
Pushed(c1, c2, c3) ==
    (IF BullishTest(c1, c3) THEN << BullishEvent(c1, c2, c3) >> ELSE << >>)
    \o
    (IF BearishTest(c1, c3) THEN << BearishEvent(c1, c2, c3) >> ELSE << >>)

\* Entry: a fresh local results list; fewer than 3 candles returns at once.
Call ==
    /\ pc \in {"ready", "done"}
    /\ calls < MaxCalls
    /\ calls' = calls + 1
    /\ prior' = outcome
    /\ results' = FreshResults(results)
    /\ origin' = FreshResults(origin)
    /\ IF Len(candlesticks) < WindowSize
       THEN /\ outcome' = NotEnoughData(results')
            /\ pc' = "done"
            /\ i' = i
       ELSE /\ i' = 0
            /\ pc' = "scan"
            /\ outcome' = outcome
    /\ UNCHANGED <<candlesticks, consoleErrors>>
    /\ UNCHANGED <<storeVars, fetchVars, notifyVars, routeVars>>

ScanWindowSkipOverlap ==
    /\ pc = "scan"
    /\ LoopCondition(i, Len(candlesticks))
    /\ ~Throws(At(i), At(i + 1), At(i + 2))
    /\ LET new == Pushed(At(i), At(i + 1), At(i + 2))
       IN  /\ results' = results \o new
           /\ origin' = origin \o [k \in 1..Len(new) |-> i]
           /\ i' = IF Len(new) > 0 THEN i + WindowSize ELSE i + 1
    /\ UNCHANGED <<candlesticks, pc, outcome, prior, calls, consoleErrors>>
    /\ UNCHANGED <<storeVars, fetchVars, notifyVars, routeVars>>

\* One iteration of the for loop.
ScanWindow ==
    /\ pc = "scan"
    /\ LoopCondition(i, Len(candlesticks))
    /\ ~Throws(At(i), At(i + 1), At(i + 2))
    /\ LET candle1 == At(i)
           candle2 == At(i + 1)
           candle3 == At(i + 2)
           new == Pushed(candle1, candle2, candle3)
       IN  /\ results' = results \o new
           /\ origin' = origin \o [k \in 1..Len(new) |-> i]
    /\ i' = i + 1
    /\ UNCHANGED <<candlesticks, pc, outcome, prior, calls, consoleErrors>>
    /\ UNCHANGED <<storeVars, fetchVars, notifyVars, routeVars>>

\* Loop exit and the final return.
Return ==
    /\ pc = "scan"
    /\ ~LoopCondition(i, Len(candlesticks))
    /\ outcome' = Completed(results)
    /\ pc' = "done"
    /\ UNCHANGED <<candlesticks, i, results, origin, prior, calls, consoleErrors>>
    /\ UNCHANGED <<storeVars, fetchVars, notifyVars, routeVars>>

\* An iteration whose reads throw: the catch block logs the error and
\* returns the failure outcome.
Catch ==
    /\ pc = "scan"
    /\ LoopCondition(i, Len(candlesticks))
    /\ Throws(At(i), At(i + 1), At(i + 2))
    /\ consoleErrors' = consoleErrors + 1
    /\ outcome' = Caught(TypeErrorMessage, results)
    /\ pc' = "done"
    /\ UNCHANGED <<candlesticks, i, results, origin, prior, calls>>
    /\ UNCHANGED <<storeVars, fetchVars, notifyVars, routeVars>>

\* The state of the detector before the first call, for a given input.
DetectorInit ==
    /\ pc = "ready"
    /\ i = 0
    /\ results = << >>
    /\ origin = << >>
    /\ outcome = NoOutcome
    /\ prior = NoOutcome
    /\ calls = 0
    /\ consoleErrors = 0

\* An empty table, no call of storeFvgResultsAction yet.
StoreInit ==
    /\ table = << >>
    /\ storeArg = << >>
    /\ storeOutcome = NoOutcome
    /\ stores = 0

\* no invocation of the GET route has started
RouteIdle == route = [c \in {1} |-> [pc |-> "ready"]]

NotifyStart ==
    /\ emailPc = "ready"
    /\ attempt = 0
    /\ lastError = Null
    /\ emailLog = << >>
    /\ waits = 0
    /\ emailOutcome = Pending
    /\ inAppOutcome = Pending
    /\ order = << >>
    /\ dispatchPc = "ready"
    /\ dispatchOutcome = Pending

\* no notification is dispatched
NotifyIdle ==
    /\ emailEnv = [emailApiUrl |-> TRUE, emailApiKey |-> TRUE]
    /\ inAppThrows = FALSE
    /\ NotifyStart

\* fetchMarketDataAction is not called: configured, no answer pending.
FetchIdle ==
    /\ env = [baseUrl |-> TRUE, apiKey |-> TRUE, apiSecret |-> TRUE]
    /\ response = [kind |-> "none"]
    /\ fetchPc = "ready"
    /\ requests = 0
    /\ bodyReads = << >>
    /\ fetchOutcome = NoOutcome

Init ==
    /\ \/ \E n \in 0..WindowSize : candlesticks \in ShortInputs(n)
       \/ \E n \in (WindowSize + 1)..MaxSeries : candlesticks \in SeriesInputs(n)
       \/ candlesticks \in GroupInputs
       \/ \E n \in (WindowSize - 1)..(WindowSize + 1) : candlesticks \in FaultInputs(n)
    /\ DetectorInit
    /\ StoreInit
    /\ FetchIdle
    /\ NotifyIdle
    /\ RouteIdle

Next == Call \/ ScanWindow \/ Return \/ Catch

Spec == Init /\ [][Next]_vars

----------------------------------------------------------------------------
(* storeFvgResultsAction *)

\* new Date(ms): a Date object holding the time value ms (timestamps are
\* integral milliseconds inside the range of Date)
DateOf(ms) == [date |-> ms]

DecimalDigit(d) ==
    << "0", "1", "2", "3", "4", "5", "6", "7", "8", "9" >>[d + 1]

RECURSIVE Digits(_)
Digits(n) ==
    IF n < 10 THEN << DecimalDigit(n) >>
    ELSE Digits(n \div 10) \o << DecimalDigit(n % 10) >>

\* Number.prototype.toString for an integer: the decimal digits, with a
\* leading "-" for a negative number
NumberToString(n) == IF n < 0 THEN << "-" >> \o Digits(0 - n) ELSE Digits(n)

InsertValueVolumeFromGap(result) ==
    [fvgType |-> result.fvgType,
     startTime |-> DateOf(result.startTime),
     endTime |-> DateOf(result.endTime),
     gapSize |-> NumberToString(result.gapSize),
     volume |-> NumberToString(result.gapSize)]

\* the object built for one result by results.map
InsertValue(result) ==
    [fvgType |-> result.fvgType,
     startTime |-> DateOf(result.startTime),
     endTime |-> DateOf(result.endTime),
     gapSize |-> NumberToString(result.gapSize),
     volume |-> NumberToString(result.volume)]

InsertValues(res) == [k \in 1..Len(res) |-> InsertValue(res[k])]

\* The row of fvg_analysis for an insert value: id, created_at and
\* updated_at are set by the column defaults.
Row(v, id, now) ==
    [id |-> id, fvgType |-> v.fvgType, startTime |-> v.startTime,
     endTime |-> v.endTime, gapSize |-> v.gapSize, volume |-> v.volume,
     createdAt |-> now, updatedAt |-> now]

\* db.insert(fvgAnalysisTable).values(values).returning()
InsertedRows(values, rows, now) ==
    [k \in 1..Len(values) |-> Row(values[k], Len(rows) + k, now)]

StoredMessage == "FVG analysis results stored successfully."

\* error.message of a rejected insert
DbErrorMessage == "insert into fvg_analysis failed"

\* storeFvgResultsAction(fvgResults) on the events of a successful analysis:
\* the insert either returns the inserted rows or throws.
Store ==
    /\ pc = "done"
    /\ outcome.isSuccess
    /\ stores < calls
    /\ stores' = stores + 1
    /\ storeArg' = outcome.data
    /\ LET insertValues == InsertValues(outcome.data)
           insertedResults == InsertedRows(insertValues, table, stores')
       IN  \/ /\ table' = table \o insertedResults
              /\ storeOutcome' = Success(StoredMessage, insertedResults)
              /\ consoleErrors' = consoleErrors
           \/ /\ table' = table
              /\ storeOutcome' = Failure(DbErrorMessage)
              /\ consoleErrors' = consoleErrors + 1
    /\ UNCHANGED <<candlesticks, pc, i, results, origin, outcome, prior, calls>>
    /\ UNCHANGED <<fetchVars, notifyVars, routeVars>>

\* Analysis followed by storage, on series of four candles and on sequences
\* with a missing element.
InitStore ==
    /\ \/ candlesticks \in SeriesInputs(WindowSize + 1)
       \/ candlesticks \in FaultInputs(WindowSize)
    /\ DetectorInit
    /\ StoreInit
    /\ FetchIdle
    /\ NotifyIdle
    /\ RouteIdle

NextStore == Call \/ ScanWindow \/ Return \/ Catch \/ Store

SpecStore == InitStore /\ [][NextStore]_vars

-----------------------------------------------------------------------------
(* fetchMarketDataAction of src/actions/market-data/fetch-market-data.ts *)

\* JSON values of a response body, with the type typeof reports
JsonNumber(n) == [type |-> "number", value |-> n]

JsonString(text) == [type |-> "string", value |-> text]

CandleFields == {"open", "close", "high", "low", "volume", "time"}

\* the candle the API sends at position k of its list
ApiCandle(k) ==
    [open |-> 10 * k, close |-> 10 * k + 1, high |-> 10 * k + 2,
     low |-> k, volume |-> 100 * k, time |-> k]

\* all six fields numbers, as the Candlestick interface declares them
NumberItem(k) == [f \in CandleFields |-> JsonNumber(ApiCandle(k)[f])]

\* OHLCV as numeric strings, time a number
StringItem(k) ==
    [f \in CandleFields |->
        IF f = "time" THEN JsonNumber(ApiCandle(k)[f])
        ELSE JsonString(NumberToString(ApiCandle(k)[f]))]

\* numeric strings and no time property
MissingTimeItem(k) == [StringItem(k) EXCEPT !["time"] = Undefined]

ItemsAt(k) == {NumberItem(k), StringItem(k), MissingTimeItem(k), Null}

ItemLists ==
    UNION {{items \in [1..n -> UNION {ItemsAt(k) : k \in 1..n}] :
                \A k \in 1..n : items[k] \in ItemsAt(k)} : n \in 0..MaxItems}

\* response bodies: text that is no JSON, a JSON object {data: [...]},
\* a JSON array
Bodies ==
    {[form |-> "text"]}
        \cup {[form |-> "object", data |-> items] : items \in ItemLists}
        \cup {[form |-> "array", items |-> items] : items \in ItemLists}

Statuses == {200, 404, 500}

\* fetch resolves with a response, or rejects
Responses ==
    {[kind |-> "rejected"]}
        \cup {[kind |-> "http", status |-> s, body |-> b] :
                s \in Statuses, b \in Bodies}

Environments == [{"baseUrl", "apiKey", "apiSecret"} -> BOOLEAN]

CredentialsMessage ==
    Text("Las credenciales del API de BingX no están configuradas en las variables de entorno.")

\* the template literal: prefix, the status, ": ", the body text
StatusMessage(status, errorText) ==
    [text |-> "El API de BingX respondió con el estado ",
     status |-> status, errorText |-> errorText]

InvalidFormatMessage ==
    Text("El formato de datos de candlestick recibido es inválido.")

FetchedMessage == Text("Datos de mercado obtenidos y validados exitosamente.")

\* the message of the TypeError a rejected fetch carries
FetchFailedMessage == Text("fetch failed")

\* the message of the SyntaxError response.json() throws on text
JsonSyntaxMessage == Text("Unexpected token in JSON")

\* the message of the TypeError of reading item.open on null
NullItemMessage == Text("Cannot read properties of null (reading 'open')")

\* !baseUrl || !apiKey || !apiSecret, negated
ConfiguredWithoutSecret(e) == e.baseUrl /\ e.apiKey

Configured(e) == e.baseUrl /\ e.apiKey /\ e.apiSecret

\* Response.ok: the status is in the range 200-299
IsOkAlways(r) == TRUE

IsOk(r) == r.status \in 200..299

TypeOf(v) == IF v = Undefined THEN "undefined" ELSE v.type

ItemIsCandle(item) == \A f \in CandleFields : TypeOf(item[f]) = "number"

\* the items the for-of loop rejects or fails on
BadItems(items) ==
    {k \in 1..Len(items) : items[k] = Null \/ ~ItemIsCandle(items[k])}

FirstBadItem(items) ==
    CHOOSE k \in BadItems(items) : \A j \in BadItems(items) : k <= j

\* validateCandlestickData: "valid" for true, "invalid" for false, "throws"
\* when the loop reaches a null item
ValidateCandlestickData(data) ==
    IF data.form # "array" THEN "invalid"
    ELSE IF BadItems(data.items) = {} THEN "valid"
    ELSE IF data.items[FirstBadItem(data.items)] = Null THEN "throws"
    ELSE "invalid"

\* what the try block returns, or what the catch block makes of its throw
FetchResult(e, r) ==
    IF ~Configured(e) THEN Failure(CredentialsMessage)
    ELSE IF r.kind = "rejected" THEN Failure(FetchFailedMessage)
    ELSE IF ~IsOk(r) THEN Failure(StatusMessage(r.status, r.body))
    ELSE IF r.body.form = "text" THEN Failure(JsonSyntaxMessage)
    ELSE IF ValidateCandlestickData(r.body) = "throws"
        THEN Failure(NullItemMessage)
    ELSE IF ValidateCandlestickData(r.body) = "invalid"
        THEN Failure(InvalidFormatMessage)
    ELSE Success(FetchedMessage, r.body.items)

\* the reads of the body the call makes: text() of a non-OK response,
\* json() of an OK one
BodyReads(e, r) ==
    IF ~Configured(e) \/ r.kind = "rejected" THEN << >>
    ELSE IF ~IsOk(r) THEN << "text" >>
    ELSE << "json" >>

\* one call of fetchMarketDataAction, from the environment check to the
\* return of the try or of the catch block
FetchMarketData ==
    /\ fetchPc = "ready"
    /\ requests' = IF Configured(env)
                   THEN requests + 1 ELSE requests
    /\ bodyReads' = bodyReads \o BodyReads(env, response)
    /\ fetchOutcome' = FetchResult(env, response)
    /\ consoleErrors' = IF FetchResult(env, response).isSuccess
                        THEN consoleErrors ELSE consoleErrors + 1
    /\ fetchPc' = "done"
    /\ UNCHANGED <<env, response>>
    /\ UNCHANGED <<candlesticks, pc, i, results, origin, outcome, prior, calls>>
    /\ UNCHANGED <<storeVars, notifyVars, routeVars>>

InitFetch ==
    /\ env \in Environments
    /\ response \in Responses
    /\ fetchPc = "ready"
    /\ requests = 0
    /\ bodyReads = << >>
    /\ fetchOutcome = NoOutcome
    /\ candlesticks = << >>
    /\ DetectorInit
    /\ StoreInit
    /\ NotifyIdle
    /\ RouteIdle

NextFetch == FetchMarketData

SpecFetch == InitFetch /\ [][NextFetch]_vars

-----------------------------------------------------------------------------
(* The notification actions of src/actions/notifications/fvg-notifications.ts *)

\* what the email service does with one request: fetch rejects, or resolves
\* with a response whose body can be read as text or fails while being read
EmailStatuses == {202, 400, 500}

EmailResponses ==
    {[kind |-> "rejected"]}
        \cup {[kind |-> "http", status |-> s, readable |-> b] :
                s \in EmailStatuses, b \in BOOLEAN}

EmailEnvironments == [{"emailApiUrl", "emailApiKey"} -> BOOLEAN]

EmailConfigMessage ==
    Text("Email service configuration is missing. Please set EMAIL_API_URL and EMAIL_API_KEY in .env.local.")

EmailSentMessage == Text("Email notification sent successfully.")

\* the template literal: prefix, the status, ": ", the body text
EmailStatusMessage(status) ==
    [text |-> "Email service responded with status ", status |-> status,
     errorText |-> "body"]

\* the message of the TypeError of a body that fails while being read
BodyReadFailedMessage == Text("terminated")

InAppSentMessage == Text("In-app notification dispatched successfully.")

\* the message of the error console.log throws
InAppErrorMessage == Text("write failed")

DispatchedMessage == Text("Notifications dispatched successfully.")

DispatchFailedMessage(inner) ==
    [text |-> "Notification dispatch failed: ", inner |-> inner]

\* the value thrown inside the try block for a response that is not a
\* success; fetch and Response.text() reject with Error objects only
ThrownError(r) ==
    IF r.kind = "rejected" THEN [message |-> FetchFailedMessage]
    ELSE IF ~r.readable THEN [message |-> BodyReadFailedMessage]
    ELSE [message |-> EmailStatusMessage(r.status)]

maxRetries == 3

\* sendInAppNotificationAction: console.log, or its catch block
InAppResult(throws) ==
    IF throws THEN Failure(InAppErrorMessage)
    ELSE Success(InAppSentMessage, Undefined)

\* while (attempt < maxRetries)
RetryConditionOrEqual(a) == a <= maxRetries

RetryCondition(a) == a < maxRetries

\* dispatchFvgNotificationsAction up to its call of the email action: the
\* in-app notification is sent and, when it failed, the failure is logged
DispatchInApp ==
    /\ dispatchPc = "ready"
    /\ inAppOutcome' = InAppResult(inAppThrows)
    /\ consoleErrors' = IF inAppThrows THEN consoleErrors + 2 ELSE consoleErrors
    /\ order' = Append(order, "inApp")
    /\ dispatchPc' = "email"
    /\ UNCHANGED <<emailEnv, inAppThrows, emailPc, attempt, lastError,
                   emailLog, waits, emailOutcome, dispatchOutcome>>
    /\ UNCHANGED <<candlesticks, pc, i, results, origin, outcome, prior, calls>>
    /\ UNCHANGED <<storeVars, fetchVars, routeVars>>

\* sendEmailNotificationAction from its call to the first loop test
EmailCall ==
    /\ dispatchPc = "email"
    /\ emailPc = "ready"
    /\ order' = Append(order, "email")
    /\ IF emailEnv.emailApiUrl /\ emailEnv.emailApiKey
       THEN /\ emailPc' = "loop"
            /\ attempt' = 0
            /\ lastError' = Null
            /\ UNCHANGED emailOutcome
       ELSE /\ emailPc' = "done"
            /\ emailOutcome' = Failure(EmailConfigMessage)
            /\ UNCHANGED <<attempt, lastError>>
    /\ UNCHANGED <<emailEnv, inAppThrows, emailLog, waits, inAppOutcome,
                   dispatchPc, dispatchOutcome>>
    /\ UNCHANGED detectorVars
    /\ UNCHANGED <<storeVars, fetchVars, routeVars>>

\* lastError = error of the catch block
FirstError(previous, error) == IF previous = Null THEN error ELSE previous

LastError(previous, error) == error

\* one pass of the loop body up to its return or to the delay of the catch
\* block
EmailAttempt ==
    /\ emailPc = "loop"
    /\ RetryCondition(attempt)
    /\ \E r \in EmailResponses :
          /\ emailLog' = Append(emailLog, r)
          /\ IF r.kind = "http" /\ r.status \in 200..299
             THEN /\ emailOutcome' = Success(EmailSentMessage, Undefined)
                  /\ emailPc' = "done"
                  /\ UNCHANGED <<attempt, lastError, consoleErrors>>
             ELSE /\ attempt' = attempt + 1
                  /\ lastError' = LastError(lastError, ThrownError(r))
                  /\ consoleErrors' = consoleErrors + 1
                  /\ emailPc' = "wait"
                  /\ UNCHANGED emailOutcome
    /\ UNCHANGED <<emailEnv, inAppThrows, waits, inAppOutcome, order,
                   dispatchPc, dispatchOutcome>>
    /\ UNCHANGED <<candlesticks, pc, i, results, origin, outcome, prior, calls>>
    /\ UNCHANGED <<storeVars, fetchVars, routeVars>>

\* the timer of the catch block fires; control is back at the loop test
EmailWait ==
    /\ emailPc = "wait"
    /\ waits' = waits + 1
    /\ emailPc' = "loop"
    /\ UNCHANGED <<emailEnv, inAppThrows, attempt, lastError, emailLog,
                   emailOutcome, inAppOutcome, order, dispatchPc,
                   dispatchOutcome>>
    /\ UNCHANGED detectorVars
    /\ UNCHANGED <<storeVars, fetchVars, routeVars>>

\* the loop test fails: all attempts failed
EmailGiveUp ==
    /\ emailPc = "loop"
    /\ ~RetryCondition(attempt)
    /\ emailOutcome' = Failure(lastError.message)
    /\ emailPc' = "done"
    /\ UNCHANGED <<emailEnv, inAppThrows, attempt, lastError, emailLog, waits,
                   inAppOutcome, order, dispatchPc, dispatchOutcome>>
    /\ UNCHANGED detectorVars
    /\ UNCHANGED <<storeVars, fetchVars, routeVars>>

\* the ActionState dispatchFvgNotificationsAction returns
DispatchResultBoth(inAppResult, emailResult) ==
    IF inAppResult.isSuccess /\ emailResult.isSuccess
    THEN Success(DispatchedMessage, Undefined)
    ELSE Failure(DispatchFailedMessage(emailResult.message))

DispatchResult(inAppResult, emailResult) ==
    IF emailResult.isSuccess THEN Success(DispatchedMessage, Undefined)
    ELSE Failure(DispatchFailedMessage(emailResult.message))

\* dispatchFvgNotificationsAction after the email action returned
DispatchReturn ==
    /\ dispatchPc = "email"
    /\ emailPc = "done"
    /\ dispatchOutcome' = DispatchResult(inAppOutcome, emailOutcome)
    /\ consoleErrors' = IF emailOutcome.isSuccess THEN consoleErrors
                        ELSE consoleErrors + 1
    /\ dispatchPc' = "done"
    /\ UNCHANGED <<emailEnv, inAppThrows, emailPc, attempt, lastError,
                   emailLog, waits, emailOutcome, inAppOutcome, order>>
    /\ UNCHANGED <<candlesticks, pc, i, results, origin, outcome, prior, calls>>
    /\ UNCHANGED <<storeVars, fetchVars, routeVars>>

InitNotify ==
    /\ emailEnv \in EmailEnvironments
    /\ inAppThrows \in BOOLEAN
    /\ NotifyStart
    /\ candlesticks = << >>
    /\ DetectorInit
    /\ StoreInit
    /\ FetchIdle
    /\ RouteIdle

NextNotify ==
    DispatchInApp \/ EmailCall \/ EmailAttempt \/ EmailWait \/ EmailGiveUp
        \/ DispatchReturn

SpecNotify == InitNotify /\ [][NextNotify]_vars

\* Every request settles (fetch resolves or rejects), the timer of the delay
\* fires, and the runtime resumes a function whose await has settled.
SpecNotifyFair == SpecNotify /\ WF_vars(NextNotify)

\* Both actions that read their configuration from the environment, called
\* by one process: any of the five variables may be unset.
ConfigResponses ==
    {[kind |-> "rejected"],
     [kind |-> "http", status |-> 500, body |-> [form |-> "text"]],
     [kind |-> "http", status |-> 200,
      body |-> [form |-> "array", items |-> << NumberItem(1) >>]]}

InitConfig ==
    /\ env \in Environments
    /\ response \in ConfigResponses
    /\ fetchPc = "ready"
    /\ requests = 0
    /\ bodyReads = << >>
    /\ fetchOutcome = NoOutcome
    /\ emailEnv \in EmailEnvironments
    /\ inAppThrows = FALSE
    /\ NotifyStart
    /\ candlesticks = << >>
    /\ DetectorInit
    /\ StoreInit
    /\ RouteIdle

NextConfig ==
    FetchMarketData \/ DispatchInApp \/ EmailCall \/ EmailAttempt
        \/ EmailWait \/ EmailGiveUp \/ DispatchReturn

SpecConfig == InitConfig /\ [][NextConfig]_vars

-----------------------------------------------------------------------------
(* The GET route of src/unnamed/part_000: fetch, analyse, store *)

\* fvgAnalysisAction(cs) as a function of its argument: the loop from window
\* k on, with the results res pushed so far
RECURSIVE Scanned(_, _, _)
Scanned(cs, k, res) ==
    IF ~LoopCondition(k, Len(cs)) THEN Completed(res)
    ELSE IF Throws(cs[k + 1], cs[k + 2], cs[k + 3])
        THEN Caught(TypeErrorMessage, res)
    ELSE Scanned(cs, k + 1, res \o Pushed(cs[k + 1], cs[k + 2], cs[k + 3]))

FvgAnalysisAction(cs) ==
    IF Len(cs) < WindowSize THEN NotEnoughData(<< >>)
    ELSE Scanned(cs, 0, << >>)

\* a candle as an item of a JSON array, and back as the object the
\* detector reads
ItemOf(candle) == [f \in CandleFields |-> JsonNumber(candle[f])]

CandlesOf(data) ==
    [k \in 1..Len(data) |-> [f \in CandleFields |-> data[k][f].value]]

\* the candle lists the market-data API serves to the route: none, two
\* candles, three without a gap, three with a bullish gap, four with a
\* bullish and a bearish gap
RouteSeries ==
    {Series(<< >>),
     Series(<< <<0, 0>>, <<0, 0>> >>),
     Series(<< <<0, 0>>, <<0, 0>>, <<0, 0>> >>),
     Series(<< <<0, 0>>, <<0, 0>>, <<1, 1>> >>),
     Series(<< <<0, 0>>, <<1, 1>>, <<1, 1>>, <<0, 0>> >>)}

RouteResponses ==
    {[kind |-> "rejected"],
     [kind |-> "http", status |-> 500, body |-> [form |-> "text"]],
     [kind |-> "http", status |-> 200,
      body |-> [form |-> "object", data |-> << >>]]}
        \cup {[kind |-> "http", status |-> 200,
               body |-> [form |-> "array",
                         items |-> [k \in 1..Len(cs) |-> ItemOf(cs[k])]]] :
                cs \in RouteSeries}

RouteEnvironments ==
    {[baseUrl |-> TRUE, apiKey |-> TRUE, apiSecret |-> TRUE],
     [baseUrl |-> TRUE, apiKey |-> TRUE, apiSecret |-> FALSE]}

Invocations == 1..MaxCycles

\* NextResponse.json({ error }, { status: 500 })
Answer500AsOk(msg) == [status |-> 200, error |-> msg]

Answer500(msg) == [status |-> 500, error |-> msg]

\* NextResponse.json({ message, data }): status 200
Answer200(rows) ==
    [status |-> 200,
     message |-> "Market data fetched, analyzed, and stored successfully.",
     data |-> rows]

NoAnswer == [status |-> 0]

\* an invocation of GET that has not started
NotStarted ==
    [pc |-> "ready", ran |-> << >>, market |-> Pending, analysis |-> Pending,
     stored |-> Pending, answer |-> NoAnswer]

\* the invocation after a step returned the ActionState r: on failure the
\* route answers 500 with the step's message, on success it goes on
AfterStep(rec, step, field, r, next) ==
    [rec EXCEPT !.ran = Append(@, step),
                ![field] = r,
                !.pc = IF r.isSuccess THEN next ELSE "answered",
                !.answer = IF r.isSuccess THEN @ ELSE Answer500(r.message)]

\* after fvgAnalysisAction returned a
AnalysedSkipsEmpty(rec, a) ==
    IF a.isSuccess /\ a.data = << >>
    THEN [rec EXCEPT !.ran = Append(@, "analyse"), !.analysis = a,
                     !.pc = "answered", !.answer = Answer200(<< >>)]
    ELSE AfterStep(rec, "analyse", "analysis", a, "analysed")

Analysed(rec, a) == AfterStep(rec, "analyse", "analysis", a, "analysed")

\* the table after an insert of new rows
Deduplicated(rows, new) ==
    rows \o SelectSeq(new, LAMBDA n :
                \A k \in 1..Len(rows) :
                    [rows[k] EXCEPT !.id = 0, !.createdAt = 0, !.updatedAt = 0]
                        # [n EXCEPT !.id = 0, !.createdAt = 0, !.updatedAt = 0])

Appended(rows, new) == rows \o new

\* Step 1 of an invocation: await fetchMarketDataAction()
RouteFetchSerialized(c) ==
    /\ route[c].pc = "ready"
    /\ \A d \in Invocations : route[d].pc \in {"ready", "answered"}
    /\ \E r \in RouteResponses :
          LET marketDataResponse == FetchResult(env, r)
          IN  /\ route' = [route EXCEPT ![c] =
                    AfterStep(@, "fetch", "market", marketDataResponse, "fetched")]
              /\ consoleErrors' = IF marketDataResponse.isSuccess
                                  THEN consoleErrors ELSE consoleErrors + 1
    /\ UNCHANGED <<candlesticks, pc, i, results, origin, outcome, prior, calls>>
    /\ UNCHANGED <<storeVars, fetchVars, notifyVars>>

RouteFetch(c) ==
    /\ route[c].pc = "ready"
    /\ \E r \in RouteResponses :
          LET marketDataResponse == FetchResult(env, r)
          IN  /\ route' = [route EXCEPT ![c] =
                    AfterStep(@, "fetch", "market", marketDataResponse, "fetched")]
              /\ consoleErrors' = IF marketDataResponse.isSuccess
                                  THEN consoleErrors ELSE consoleErrors + 1
    /\ UNCHANGED <<candlesticks, pc, i, results, origin, outcome, prior, calls>>
    /\ UNCHANGED <<storeVars, fetchVars, notifyVars>>

\* Step 2: await fvgAnalysisAction(candlesticks)
RouteAnalyse(c) ==
    /\ route[c].pc = "fetched"
    /\ LET fvgAnalysisResponse ==
              FvgAnalysisAction(CandlesOf(route[c].market.data))
       IN  /\ route' = [route EXCEPT ![c] = Analysed(@, fvgAnalysisResponse)]
           /\ consoleErrors' = IF fvgAnalysisResponse.isSuccess
                               THEN consoleErrors ELSE consoleErrors + 1
    /\ UNCHANGED <<candlesticks, pc, i, results, origin, outcome, prior, calls>>
    /\ UNCHANGED <<storeVars, fetchVars, notifyVars>>

\* Step 3 and the answer: await storeFvgResultsAction(fvgResults); the
\* insert either returns the inserted rows or throws inside the action
RouteStore(c) ==
    /\ route[c].pc = "analysed"
    /\ stores' = stores + 1
    /\ LET insertValues == InsertValues(route[c].analysis.data)
           insertedResults == InsertedRows(insertValues, table, stores')
       IN  \/ /\ table' = Appended(table, insertedResults)
              /\ route' = [route EXCEPT ![c] =
                    [AfterStep(@, "store", "stored",
                               Success(StoredMessage, insertedResults),
                               "answered")
                        EXCEPT !.answer = Answer200(insertedResults)]]
              /\ consoleErrors' = consoleErrors
           \/ /\ table' = table
              /\ route' = [route EXCEPT ![c] =
                    AfterStep(@, "store", "stored", Failure(DbErrorMessage),
                              "answered")]
              /\ consoleErrors' = consoleErrors + 1
    /\ UNCHANGED <<storeArg, storeOutcome>>
    /\ UNCHANGED <<candlesticks, pc, i, results, origin, outcome, prior, calls>>
    /\ UNCHANGED <<fetchVars, notifyVars>>

InitRoute ==
    /\ route = [c \in Invocations |-> NotStarted]
    /\ env \in RouteEnvironments
    /\ response = [kind |-> "none"]
    /\ fetchPc = "ready"
    /\ requests = 0
    /\ bodyReads = << >>
    /\ fetchOutcome = NoOutcome
    /\ candlesticks = << >>
    /\ DetectorInit
    /\ StoreInit
    /\ NotifyIdle

NextRoute ==
    \E c \in Invocations : RouteFetch(c) \/ RouteAnalyse(c) \/ RouteStore(c)

SpecRoute == InitRoute /\ [][NextRoute]_vars

----------------------------------------------------------------------------
(* Vocabulary of the properties, stated on the input alone *)

NumCandles == Len(candlesticks)

\* window start indices, 0-based
Windows == 0..(NumCandles - 3)

First(w) == candlesticks[w + 1]
Middle(w) == candlesticks[w + 2]
Third(w) == candlesticks[w + 3]

GapUp(w) == Third(w).low > First(w).high

GapDown(w) == Third(w).high < First(w).low

Gaps(w) == (IF GapUp(w) THEN 1 ELSE 0) + (IF GapDown(w) THEN 1 ELSE 0)

RECURSIVE GapsBefore(_)
GapsBefore(w) == IF w <= 0 THEN 0 ELSE GapsBefore(w - 1) + Gaps(w - 1)

VolumeOf(w) == First(w).volume + Middle(w).volume + Third(w).volume

UpEvent(w) ==
    [fvgType |-> "bullish", startTime |-> First(w).time, endTime |-> Third(w).time,
     gapSize |-> Third(w).low - First(w).high, volume |-> VolumeOf(w)]

DownEvent(w) ==
    [fvgType |-> "bearish", startTime |-> First(w).time, endTime |-> Third(w).time,
     gapSize |-> First(w).low - Third(w).high, volume |-> VolumeOf(w)]

WellFormed == \A k \in 1..NumCandles : candlesticks[k].low <= candlesticks[k].high

\* every element of the input is a candle with numeric fields
WellTyped == \A k \in 1..NumCandles : candlesticks[k] # Undefined

\* a call on a sequence of candles has returned
Returned == pc = "done" /\ WellTyped

Events == outcome.data

----------------------------------------------------------------------------
(* Properties of fvgAnalysisAction *)

\* C1: for a candle sequence of length 0, 1 or 2 the call returns a success
\* outcome whose event list is empty.
C1_ShortInputEmptySuccess ==
    (Returned /\ NumCandles < 3) =>
        /\ outcome.isSuccess = TRUE
        /\ outcome.hasData
        /\ Events = << >>

C1_Witness ==
    /\ Returned
    /\ NumCandles = 2
    /\ outcome.isSuccess
    /\ Events = << >>

\* C2: every window with third.low > first.high has, at the position that
\* corresponds to the window (after the events of all earlier windows), a
\* bullish event with startTime = first.time, endTime = third.time,
\* gapSize = third.low - first.high and the volume of the three candles.
C2_BullishEventAtPosition ==
    (Returned /\ NumCandles >= 3) =>
        \A w \in Windows :
            GapUp(w) =>
                /\ GapsBefore(w) + 1 <= Len(Events)
                /\ Events[GapsBefore(w) + 1].fvgType = "bullish"
                /\ Events[GapsBefore(w) + 1].startTime = First(w).time
                /\ Events[GapsBefore(w) + 1].endTime = Third(w).time
                /\ Events[GapsBefore(w) + 1].gapSize = Third(w).low - First(w).high
                /\ Events[GapsBefore(w) + 1].volume = VolumeOf(w)

\* a bullish window that is not the first one and follows an emitted event
C2_Witness ==
    /\ Returned
    /\ \E w \in Windows :
          /\ w > 0
          /\ GapUp(w)
          /\ GapsBefore(w) > 0
          /\ Events[GapsBefore(w) + 1] = UpEvent(w)

TwoGroups == NumCandles = 6 /\ GapUp(0) /\ GapDown(3)

\* tests satisfied by the six-candle input besides the two that define it
ExtraGaps == (Gaps(0) - 1) + Gaps(1) + Gaps(2) + (Gaps(3) - 1)

C6_EventsOnlyFromQualifyingWindows ==
    (Returned /\ NumCandles >= 3) =>
        /\ Len(origin) = Len(Events)
        /\ \A k \in 1..Len(Events) :
              /\ origin[k] \in Windows
              /\ Events[k].fvgType \in {"bullish", "bearish"}
              /\ Events[k].fvgType = "bullish" =>
                    GapUp(origin[k]) /\ Events[k] = UpEvent(origin[k])
              /\ Events[k].fvgType = "bearish" =>
                    GapDown(origin[k]) /\ Events[k] = DownEvent(origin[k])
        /\ \A w \in Windows :
              Gaps(w) = 0 => \A k \in 1..Len(origin) : origin[k] # w

\* a window with third.low = first.high (no gap) between two emitting windows
C6_Witness ==
    /\ Returned
    /\ \E w \in Windows :
          /\ Gaps(w) = 0
          /\ Third(w).low = First(w).high
          /\ \E k \in 1..(Len(origin) - 1) : origin[k] < w /\ origin[k + 1] > w

\* C7: both tests are evaluated for every window; a window that satisfies
\* both (malformed candles) gets two events, the bullish one immediately
\* followed by the bearish one.
C7_BothTestsBothEvents ==
    (Returned /\ NumCandles >= 3) =>
        \A w \in Windows :
            (GapUp(w) /\ GapDown(w)) =>
                /\ GapsBefore(w) + 2 <= Len(Events)
                /\ Events[GapsBefore(w) + 1] = UpEvent(w)
                /\ Events[GapsBefore(w) + 2] = DownEvent(w)
                /\ origin[GapsBefore(w) + 1] = w
                /\ origin[GapsBefore(w) + 2] = w

C7_Witness ==
    /\ Returned
    /\ \E w \in Windows :
          /\ GapUp(w) /\ GapDown(w)
          /\ \E k \in 1..NumCandles : candlesticks[k].low > candlesticks[k].high
          /\ Events[GapsBefore(w) + 1].fvgType = "bullish"
          /\ Events[GapsBefore(w) + 2].fvgType = "bearish"

\* C8: when every candle has low <= high no window satisfies both tests, the
\* call emits at most one event per window and at most n-2 events in total.
C8_WellFormedAtMostOnePerWindow ==
    (Returned /\ NumCandles >= 3 /\ WellFormed) =>
        /\ \A w \in Windows : ~(GapUp(w) /\ GapDown(w))
        /\ \A w \in Windows :
              Cardinality({ k \in 1..Len(origin) : origin[k] = w }) <= 1
        /\ Len(origin) = Len(Events)
        /\ Len(Events) <= NumCandles - 2

\* well-formed input in which every window emits: n-2 events
C8_Witness ==
    /\ Returned
    /\ NumCandles >= 4
    /\ WellFormed
    /\ Len(Events) = NumCandles - 2

C10_SecondCallSameOutcome ==
    (Returned /\ calls >= 2) =>
        /\ outcome.isSuccess = prior.isSuccess
        /\ outcome.message = prior.message
        /\ outcome.hasData = prior.hasData
        /\ outcome.data = prior.data

C10_Witness ==
    /\ Returned
    /\ calls = 2
    /\ Len(Events) >= 2
    /\ prior.isSuccess
    /\ prior.data = Events

----------------------------------------------------------------------------
(* Properties of fvgAnalysisAction: middle candle, gap size, outcomes, faults *)

\* the events of the output that were pushed at window index w
EventsAt(w) ==
    LET ks == { k \in 1..Len(origin) : origin[k] = w }
        before == Cardinality({ k \in 1..Len(origin) : origin[k] < w })
    IN  [j \in 1..Cardinality(ks) |-> Events[before + j]]

\* candles of the volume of m whose open, close, high, low and time are each
\* at one end of their range, in every combination
MiddleVariants(m) ==
    [open : {0, MaxPrice}, close : {0, MaxPrice}, high : {0, MaxPrice},
     low : {0, MaxPrice}, volume : {m.volume}, time : {0, MaxTime + 1}]

\* C11: the open, close, high, low and time of the middle candle of a window
\* do not influence the window's events: with any other middle candle of the
\* same volume the loop body pushes exactly the events that the call
\* returned for that window.
C11_MiddleCandleOnlyVolume ==
    (Returned /\ NumCandles >= 3) =>
        \A w \in Windows :
            LET returned == EventsAt(w)
            IN  \A m \in MiddleVariants(Middle(w)) :
                    returned = Pushed(First(w), m, Third(w))

\* an emitting window whose middle candle lies strictly beyond the third one
C11_Witness ==
    /\ Returned
    /\ \E w \in Windows :
          /\ Gaps(w) = 1
          /\ Middle(w).high < Third(w).low
          /\ Middle(w).time # First(w).time
          /\ Len(EventsAt(w)) = 1

\* C12: every event pushed or returned has gapSize > 0, malformed candles
\* (low > high) included.
C12_GapSizePositive ==
    /\ \A k \in 1..Len(results) : results[k].gapSize > 0
    /\ \A k \in 1..Len(outcome.data) : outcome.data[k].gapSize > 0

C12_Witness ==
    /\ Returned
    /\ ~WellFormed
    /\ Len(Events) >= 2
    /\ \A k \in 1..Len(Events) : Events[k].gapSize > 0

\* C13 as stated: the call has no side effect: no step changes the input
\* sequence or writes anything outside the local result list; the console is
\* such a place.
C13_NoSideEffects ==
    [][candlesticks' = candlesticks /\ consoleErrors' = consoleErrors]_vars

\* C14: for every sequence of well-typed candles, malformed ones included,
\* the call returns success, and the message depends only on whether there
\* are fewer than 3 candles.
C14_WellTypedAlwaysSuccess ==
    Returned =>
        /\ outcome.isSuccess = TRUE
        /\ outcome.hasData
        /\ outcome.message = IF NumCandles < 3
                             THEN "Not enough data to perform FVG analysis."
                             ELSE "FVG analysis completed successfully."

C14_Witness ==
    /\ Returned
    /\ NumCandles >= 3
    /\ ~WellFormed
    /\ outcome.isSuccess
    /\ outcome.message = "FVG analysis completed successfully."

\* the first window that contains an undefined element
FirstFaultWindow ==
    CHOOSE w \in Windows :
        /\ \E k \in (w + 1)..(w + 3) : candlesticks[k] = Undefined
        /\ \A v \in 0..(w - 1) :
              \A k \in (v + 1)..(v + 3) : candlesticks[k] # Undefined

\* C15: when a read throws during the scan (an undefined element among 3 or
\* more), the call still returns: a failure outcome with the error's message
\* and without data, the events found before the fault included; the scan
\* stops at the faulting window and is not run again.
C15_FaultBecomesFailure ==
    (pc = "done" /\ NumCandles >= 3 /\ ~WellTyped) =>
        /\ outcome.isSuccess = FALSE
        /\ outcome.message = TypeErrorMessage
        /\ outcome.message # ""
        /\ ~outcome.hasData
        /\ outcome.data = << >>
        /\ i = FirstFaultWindow
        /\ consoleErrors = calls

\* events were found before the fault and are not returned
C15_Witness ==
    /\ pc = "done"
    /\ ~WellTyped
    /\ ~outcome.isSuccess
    /\ Len(results) > 0
    /\ i = 1

\* C16 as stated: the detector does no logging on any path, the failure path
\* included.
C16_NoLogging == consoleErrors = 0

\* C17: every outcome has a success/failure indicator and a message, and
\* carries an event list exactly when the indicator is success.
C17_DataExactlyOnSuccess ==
    pc = "done" =>
        /\ outcome.isSuccess \in BOOLEAN
        /\ outcome.message # ""
        /\ outcome.hasData <=> outcome.isSuccess
        /\ ~outcome.isSuccess => outcome.data = << >>

C17_Witness ==
    /\ pc = "done"
    /\ ~outcome.isSuccess
    /\ ~outcome.hasData
    /\ prior.isSuccess = FALSE
    /\ calls = 2

\* the input is in ascending time order
Ascending ==
    \A k \in 1..(NumCandles - 1) :
        candlesticks[k].time <= candlesticks[k + 1].time

DistinctTimes ==
    \A j, k \in 1..NumCandles :
        j # k => candlesticks[j].time # candlesticks[k].time

\* C27: for an input in ascending time order every event has
\* startTime <= endTime (startTime < endTime when the times are distinct) and
\* the events are in non-decreasing order of startTime; for any input, in
\* order or not, the call succeeds and every event carries the times of the
\* first and third candle of its window: the input is neither sorted nor
\* checked.
C27_AscendingInputOrderedEvents ==
    Returned =>
        /\ outcome.isSuccess
        /\ \A k \in 1..Len(Events) :
              /\ Events[k].startTime = First(origin[k]).time
              /\ Events[k].endTime = Third(origin[k]).time
        /\ Ascending =>
              \A k \in 1..Len(Events) :
                  /\ Events[k].startTime <= Events[k].endTime
                  /\ DistinctTimes => Events[k].startTime < Events[k].endTime
                  /\ k < Len(Events) =>
                        Events[k].startTime <= Events[k + 1].startTime

\* ascending distinct times, a bullish and then a bearish event of later
\* start
C27_Witness ==
    /\ Returned
    /\ Ascending
    /\ DistinctTimes
    /\ Len(Events) >= 2
    /\ Events[1].fvgType = "bullish"
    /\ Events[2].fvgType = "bearish"
    /\ Events[1].startTime < Events[2].startTime

----------------------------------------------------------------------------
(* Properties of storeFvgResultsAction *)

DigitValue(ch) ==
    CHOOSE d \in 0..9 :
        << "0", "1", "2", "3", "4", "5", "6", "7", "8", "9" >>[d + 1] = ch

RECURSIVE ParseDigits(_)
ParseDigits(text) ==
    IF Len(text) = 0 THEN 0
    ELSE 10 * ParseDigits(SubSeq(text, 1, Len(text) - 1)) + DigitValue(text[Len(text)])

\* numeric text back to a number
ParseNumber(text) ==
    IF text[1] = "-" THEN 0 - ParseDigits(Tail(text)) ELSE ParseDigits(text)

\* a stored row back to an event: Date to epoch milliseconds, text to number
RowToEvent(row) ==
    [fvgType |-> row.fvgType, startTime |-> row.startTime.date,
     endTime |-> row.endTime.date, gapSize |-> ParseNumber(row.gapSize),
     volume |-> ParseNumber(row.volume)]

Answered == fetchPc = "done" /\ requests > 0 /\ response.kind = "http"

\* parseFloat on the five OHLCV fields, time as it is
ParsedCandle(item) ==
    [f \in CandleFields |->
        IF f = "time" THEN item[f] ELSE JsonNumber(ParseNumber(item[f].value))]

ReversedParsed(items) ==
    [k \in 1..Len(items) |-> ParsedCandle(items[Len(items) + 1 - k])]

\* C19: an OK answer with a body {data: [candles]} whose OHLCV fields are
\* numeric strings and whose time is a number gives a success outcome whose
\* data is the candle list reversed, with the OHLCV fields parsed to numbers.
C19_WrappedStringsReversedParsed ==
    (/\ Answered
     /\ response.status \in 200..299
     /\ response.body.form = "object"
     /\ \A k \in 1..Len(response.body.data) :
            response.body.data[k] = StringItem(k)) =>
        /\ fetchOutcome.isSuccess
        /\ fetchOutcome.data = ReversedParsed(response.body.data)

NumericField(item, f) ==
    /\ item # Null
    /\ item[f] # Undefined
    /\ item[f].type = "number"

\* the parsed body is a candle list: an array whose items have all six
\* fields numeric
CandleData(body) ==
    /\ body.form = "array"
    /\ \A k \in 1..Len(body.items) :
          \A f \in CandleFields : NumericField(body.items[k], f)

\* C21: an OK answer whose JSON body is not a candle list (not an array, or
\* an item without a numeric open, close, high, low, volume or time) gives a
\* failure outcome with the invalid-format message; a success outcome carries
\* only candles with all six fields numeric.
C21_InvalidDataFailure ==
    (Answered /\ response.status \in 200..299 /\ response.body.form # "text") =>
        /\ ~CandleData(response.body) =>
              /\ ~fetchOutcome.isSuccess
              /\ fetchOutcome.message.text =
                    "El formato de datos de candlestick recibido es inválido."
        /\ fetchOutcome.isSuccess =>
              \A k \in 1..Len(fetchOutcome.data) :
                  \A f \in CandleFields : NumericField(fetchOutcome.data[k], f)

-----------------------------------------------------------------------------
(* Properties of the notification actions *)

\* C22: whatever the email service answers, sendEmailNotificationAction
\* never counts more than 3 attempts, never sends more than 3 requests, and
\* every call returns an outcome.
C22_AtMostThreeAttempts ==
    /\ [](attempt <= 3 /\ Len(emailLog) <= 3)
    /\ [](emailPc # "ready" => <>(emailPc = "done"))

\* three requests, all failed in different ways, and the call has returned
C22_Witness ==
    /\ emailPc = "done"
    /\ attempt = 3
    /\ Len(emailLog) = 3
    /\ emailLog[1].kind = "rejected"
    /\ emailLog[2].kind = "http"
    /\ emailLog[3].kind = "http" /\ ~emailLog[3].readable
    /\ ~emailOutcome.isSuccess

\* C24: dispatchFvgNotificationsAction calls the in-app notification first
\* and the email notification second, calls the email notification whether
\* or not the in-app notification succeeded, and returns success exactly
\* when the email notification succeeded.
C24_InAppThenEmail ==
    /\ Len(order) <= 2
    /\ Len(order) >= 1 => order[1] = "inApp"
    /\ Len(order) >= 2 => order[2] = "email"
    /\ dispatchPc = "done" =>
          /\ order = << "inApp", "email" >>
          /\ emailPc = "done"
          /\ dispatchOutcome.isSuccess <=> emailOutcome.isSuccess

\* the in-app notification failed, the email went out, the whole succeeded
C24_Witness ==
    /\ dispatchPc = "done"
    /\ ~inAppOutcome.isSuccess
    /\ Len(emailLog) >= 1
    /\ emailOutcome.isSuccess
    /\ dispatchOutcome.isSuccess

OkResponse(r) == r.kind = "http" /\ r.status \in 200..299

\* the first OK response ended the call: it is the last request sent
EndedByFirstOk ==
    /\ Len(emailLog) >= 1
    /\ OkResponse(emailLog[Len(emailLog)])
    /\ \A k \in 1..(Len(emailLog) - 1) : ~OkResponse(emailLog[k])

\* three requests were sent, all failed, and the message is the third error's
FailedThreeTimes ==
    /\ attempt = 3
    /\ Len(emailLog) = 3
    /\ \A k \in 1..3 : ~OkResponse(emailLog[k])
    /\ emailOutcome.message = ThrownError(emailLog[3]).message

\* every failed attempt is followed by a delay before the loop goes on or
\* the call returns
WaitsAfterEveryFailure ==
    /\ emailPc \in {"loop", "done"} => waits = attempt
    /\ emailPc = "wait" => waits = attempt - 1

\* C25 as stated: the first OK response ends the call with success; the
\* call returns failure only after exactly 3 failed attempts, with the
\* message of the third error; every failed attempt is followed by a delay.
C25_FailureOnlyAfterThree ==
    /\ (emailPc = "done" /\ emailOutcome.isSuccess) => EndedByFirstOk
    /\ (emailPc = "done" /\ ~emailOutcome.isSuccess) => FailedThreeTimes
    /\ WaitsAfterEveryFailure

\* C25: with EMAIL_API_URL and EMAIL_API_KEY set, the first OK response ends
\* the call with success and no further request; the call returns failure
\* only after exactly 3 failed attempts, with the message of the third
\* error; every failed attempt, the third included, is followed by a delay.
\* With the configuration missing the call returns failure with no attempt.
C25_ConfiguredFailureOnlyAfterThree ==
    /\ (emailPc = "done" /\ emailOutcome.isSuccess) => EndedByFirstOk
    /\ (emailPc = "done" /\ ~emailOutcome.isSuccess) =>
          IF emailEnv.emailApiUrl /\ emailEnv.emailApiKey
          THEN FailedThreeTimes
          ELSE attempt = 0 /\ emailLog = << >>
    /\ WaitsAfterEveryFailure

\* three failures with different errors, three delays, then the return
C25_Witness ==
    /\ emailPc = "done"
    /\ ~emailOutcome.isSuccess
    /\ Len(emailLog) = 3
    /\ ThrownError(emailLog[1]) # ThrownError(emailLog[3])
    /\ ThrownError(emailLog[2]) # ThrownError(emailLog[3])
    /\ waits = 3

-----------------------------------------------------------------------------
(* Properties of the configuration checks *)

\* C26: with BINGX_API_URL, BINGX_API_KEY or BINGX_API_SECRET unset,
\* fetchMarketDataAction sends no HTTP request and returns a failure outcome;
\* with EMAIL_API_URL or EMAIL_API_KEY unset, sendEmailNotificationAction
\* makes no send attempt and returns a failure outcome.
C26_MissingConfigNoRequest ==
    /\ ~(env.baseUrl /\ env.apiKey /\ env.apiSecret) =>
          /\ requests = 0
          /\ bodyReads = << >>
          /\ fetchPc = "done" =>
                /\ ~fetchOutcome.isSuccess
                /\ fetchOutcome.message.text =
                      "Las credenciales del API de BingX no están configuradas en las variables de entorno."
    /\ ~(emailEnv.emailApiUrl /\ emailEnv.emailApiKey) =>
          /\ attempt = 0
          /\ emailLog = << >>
          /\ waits = 0
          /\ emailPc \in {"ready", "done"}
          /\ emailPc = "done" =>
                /\ ~emailOutcome.isSuccess
                /\ emailOutcome.message = EmailConfigMessage

\* only the API secret and only the email key are unset, and both actions
\* have returned
C26_Witness ==
    /\ env = [baseUrl |-> TRUE, apiKey |-> TRUE, apiSecret |-> FALSE]
    /\ emailEnv = [emailApiUrl |-> TRUE, emailApiKey |-> FALSE]
    /\ fetchPc = "done"
    /\ emailPc = "done"
    /\ requests = 0
    /\ ~fetchOutcome.isSuccess
    /\ ~emailOutcome.isSuccess

-----------------------------------------------------------------------------
(* Properties of the GET route *)

PipelineSteps == << "fetch", "analyse", "store" >>

\* the ActionState of the k-th step of an invocation
StepOutcome(rec, k) ==
    IF k = 1 THEN rec.market ELSE IF k = 2 THEN rec.analysis ELSE rec.stored

\* C23: an invocation of GET runs its steps in the order fetch, analyse,
\* store; a step runs only after every earlier step returned success; the
\* answer is 500 with the message of the step that returned failure, which
\* is the last step run, and 200 exactly when all three steps succeeded.
C23_PipelineOrder ==
    \A c \in Invocations :
        LET rec == route[c]
            n == Len(rec.ran)
        IN  /\ n <= 3
            /\ \A k \in 1..n : rec.ran[k] = PipelineSteps[k]
            /\ \A k \in 1..(n - 1) : StepOutcome(rec, k).isSuccess
            /\ \A k \in (n + 1)..3 : StepOutcome(rec, k) = Pending
            /\ rec.pc = "answered" =>
                  /\ n >= 1
                  /\ rec.answer.status \in {200, 500}
                  /\ rec.answer.status = 200 <=>
                        (n = 3 /\ \A k \in 1..3 : StepOutcome(rec, k).isSuccess)
                  /\ rec.answer.status = 500 =>
                        /\ ~StepOutcome(rec, n).isSuccess
                        /\ rec.answer.error = StepOutcome(rec, n).message
            /\ rec.pc # "answered" =>
                  /\ rec.answer = NoAnswer
                  /\ \A k \in 1..n : StepOutcome(rec, k).isSuccess

\* one invocation answered 500 after its fetch failed, another after its
\* insert failed, and nothing is stored
C23_Witness ==
    \E c, d \in Invocations :
        /\ route[c].pc = "answered"
        /\ route[c].ran = << "fetch" >>
        /\ route[c].answer.status = 500
        /\ route[d].pc = "answered"
        /\ route[d].ran = PipelineSteps
        /\ Len(route[d].analysis.data) > 0
        /\ route[d].answer.status = 500
        /\ table = << >>

\* the invocations whose insert succeeded
Cycles == {c \in Invocations : route[c].stored.isSuccess}

\* the number of events detected by the successful cycles among 1..n
RECURSIVE EventsOfCycles(_)
EventsOfCycles(n) ==
    IF n = 0 THEN 0
    ELSE EventsOfCycles(n - 1)
            + (IF n \in Cycles THEN Len(route[n].analysis.data) ELSE 0)

\* the rows of the table that hold the event e
RowsHolding(e) == {k \in 1..Len(table) : RowToEvent(table[k]) = e}

\* the detections of the event e by successful cycles
Detections(e) ==
    {<<c, j>> \in Invocations \X (1..Len(table)) :
        /\ c \in Cycles
        /\ j <= Len(route[c].analysis.data)
        /\ route[c].analysis.data[j] = e}

\* C28: each successful cycle inserts one new row per event it detected;
\* the number of rows is the sum of the event counts of the successful
\* cycles; an event detected by k cycles is held by k rows; and no step
\* changes or removes a row that is in the table.
C28_AppendOnlyNoDeduplication ==
    /\ [](/\ Len(table) = EventsOfCycles(MaxCycles)
          /\ \A c \in Cycles :
                /\ Len(route[c].stored.data) = Len(route[c].analysis.data)
                /\ \A j \in 1..Len(route[c].analysis.data) :
                      Cardinality(RowsHolding(route[c].analysis.data[j]))
                          = Cardinality(Detections(route[c].analysis.data[j])))
    /\ [][/\ Len(table') >= Len(table)
          /\ SubSeq(table', 1, Len(table)) = table]_vars

\* two cycles detected the same event and the table holds it twice, in rows
\* of different ids
C28_Witness ==
    /\ Len(table) = 2
    /\ RowToEvent(table[1]) = RowToEvent(table[2])
    /\ table[1].id # table[2].id
    /\ \A c \in {1, 2} : c \in Cycles /\ Len(route[c].analysis.data) = 1

\* the rows a cycle inserted lie together in the table, in their order
WroteFullList(c) ==
    \E off \in 0..Len(table) :
        /\ off + Len(route[c].stored.data) <= Len(table)
        /\ \A j \in 1..Len(route[c].stored.data) :
              table[off + j] = route[c].stored.data[j]

\* C29: the route has no lock and no in-flight guard: whatever the other
\* invocations are doing, an invocation that has not started can fetch, one
\* that has fetched can analyse and one that has analysed can insert, so two
\* invocations can be between fetch and store together and insert in either
\* order; every cycle whose insert succeeded wrote one row per event, and
\* its rows are all in the table.
C29_NoSerialization ==
    \A c \in Invocations :
        /\ route[c].pc = "ready" => ENABLED RouteFetch(c)
        /\ route[c].pc = "fetched" => ENABLED RouteAnalyse(c)
        /\ route[c].pc = "analysed" => ENABLED RouteStore(c)
        /\ c \in Cycles =>
              /\ Len(route[c].stored.data) = Len(route[c].analysis.data)
              /\ WroteFullList(c)

\* two invocations are between their fetch and their insert at the same
\* time, each with events to write, and either insert can come next
C29_Witness ==
    /\ route[1].pc = "analysed" /\ route[2].pc = "analysed"
    /\ Len(route[1].analysis.data) = 2
    /\ Len(route[2].analysis.data) = 1
    /\ table = << >>
    /\ ENABLED RouteStore(1)
    /\ ENABLED RouteStore(2)

\* the analysis of invocation c succeeded with no event
NoEvents(c) ==
    /\ Len(route[c].ran) >= 2
    /\ route[c].analysis.isSuccess
    /\ route[c].analysis.data = << >>

\* C30: after an analysis that succeeded with no event (no qualifying
\* window, or fewer than 3 candles) the route gives no answer yet: it calls
\* storeFvgResultsAction with the empty list, and answers 200 when that
\* insert succeeded and 500 with its message when it failed.
C30_EmptyListStillStored ==
    \A c \in Invocations :
        NoEvents(c) =>
            /\ route[c].pc \in {"analysed", "answered"}
            /\ route[c].pc = "analysed" =>
                  route[c].answer = NoAnswer /\ ENABLED RouteStore(c)
            /\ route[c].pc = "answered" =>
                  /\ route[c].ran = PipelineSteps
                  /\ route[c].answer.status = 200 <=> route[c].stored.isSuccess
                  /\ route[c].stored.isSuccess =>
                        route[c].answer.data = << >>
                  /\ ~route[c].stored.isSuccess =>
                        /\ route[c].answer.status = 500
                        /\ route[c].answer.error = route[c].stored.message

\* fewer than 3 candles and an empty insert that succeeded; three candles
\* without a gap and an empty insert that failed
C30_Witness ==
    \E c, d \in Invocations :
        /\ NoEvents(c) /\ NoEvents(d)
        /\ Len(route[c].market.data) = 2
        /\ Len(route[d].market.data) = 3
        /\ route[c].pc = "answered" /\ route[c].answer.status = 200
        /\ route[d].pc = "answered" /\ route[d].answer.status = 500
        /\ stores = 2

====
